---------------------------- MODULE Spec2Model ----------------------------
(***************************************************************************)
(* Model of the dbr select loaders (select_load.go): LoadAll, LoadOne and  *)
(* LoadValue of SelectBuilder.  Each call is a sequence of steps, one per  *)
(* collaborator call of the source (Interpolate/ToSql, runner.Query,       *)
(* rows.Columns, calculateFieldMap, rows.Next, holderFor, rows.Scan,       *)
(* rows.Err, the deferred rows.Close and TimingKv).  The collaborators'    *)
(* outcomes (errors, result sets, scan failures, panics) are inputs.       *)
(***************************************************************************)
EXTENDS Integers, Sequences, FiniteSets, TLC

\* Largest number of rows the cursors of one caller hold, all calls together.
MaxRows == 2
\* Number of loader calls a caller makes one after the other.
MaxCalls == 2

\* The callers (goroutines); each owns its destinations.
Procs == {1, 2}

VARIABLES
  pc,      \* pc[p]: position of caller p inside the loader it is running
  fr,      \* fr[p]: the locals of the running call (named as in the source)
  dst,     \* dst[p]: the caller's destinations: slice, map, struct, scalar
  heap,    \* heap[a]: the record or scalar cell stored at address a
  cur,     \* cur[p]: the row cursor runner.Query returned to p's call
  sink,    \* sink[p]: what the event/timing sink received during the call
  ret,     \* ret[p]: how the call ended (return values or panic)
  hist,    \* hist[p]: calls made, state at call entry, collaborator calls made
  quota    \* quota[p]: number of calls caller p makes

vars == <<pc, fr, dst, heap, cur, sink, ret, hist, quota>>

---------------------------------------------------------------------------
\* Destination shapes, as reflect sees them: the chain of kinds from the
\* value passed as dest down to the record type.
Kind(t) == IF t = <<>> THEN "Invalid" ELSE Head(t)
Elem(t) == IF t = <<>> THEN <<>> ELSE Tail(t)
\* reflect.Indirect: follows a pointer, leaves anything else alone.
Indirect(t) == IF Kind(t) = "Ptr" THEN Elem(t) ELSE t

PtrSlicePtrStruct == <<"Ptr", "Slice", "Ptr", "Struct">>
MapPtrStruct      == <<"Map", "Ptr", "Struct">>
PtrMapPtrStruct   == <<"Ptr", "Map", "Ptr", "Struct">>
PtrStruct         == <<"Ptr", "Struct">>
PtrInt            == <<"Ptr", "Int">>

DestTypes ==
  { PtrSlicePtrStruct, MapPtrStruct, PtrMapPtrStruct, PtrStruct, PtrInt,
    <<"Slice", "Ptr", "Struct">>,        \* a slice passed by value
    <<"Ptr", "Slice", "Struct">>,        \* elements are not pointers
    <<"Ptr", "Slice", "Ptr", "Int">>,    \* elements point to no structure
    <<"Map", "Struct">>,
    <<"Struct">>, <<"Int">>, <<>> }      \* <<>> is the nil interface

\* A validation that stops at "elements are pointers" (no lines 48-51).
LoadAllClassify_AnyPointer(t) ==
  LET valueOfDest == IF Kind(t) = "Ptr" THEN Indirect(t) ELSE t
      kindOfDest  == Kind(valueOfDest)
      recordType  == Elem(valueOfDest)
  IN  IF Kind(t) # "Ptr" /\ Kind(t) # "Map" THEN "panic"
      ELSE IF ~(kindOfDest = "Map" \/ kindOfDest = "Slice") THEN "panic"
      ELSE IF Kind(recordType) # "Ptr" THEN "panic"
      ELSE kindOfDest

\* Lines 27-51: "panic", or the kind of the destination ("Slice", "Map").
LoadAllClassify(t) ==
  LET valueOfDest == IF Kind(t) = "Ptr" THEN Indirect(t) ELSE t
      kindOfDest  == Kind(valueOfDest)
      recordType  == Elem(valueOfDest)
  IN  IF Kind(t) # "Ptr" /\ Kind(t) # "Map" THEN "panic"
      ELSE IF ~(kindOfDest = "Map" \/ kindOfDest = "Slice") THEN "panic"
      ELSE IF Kind(recordType) # "Ptr" THEN "panic"
      ELSE IF Kind(Elem(recordType)) # "Struct" THEN "panic"
      ELSE kindOfDest

\* Lines 129-135.
LoadOneClassify(t) ==
  IF Kind(t) # "Ptr" \/ Kind(Indirect(t)) # "Struct" THEN "panic" ELSE "Struct"

\* A validation that also turns a pointer to a structure away.
LoadValueClassify_Scalar(t) ==
  IF Kind(t) # "Ptr" \/ Kind(Indirect(t)) = "Struct" THEN "panic" ELSE "Ptr"

\* Lines 195-200.
LoadValueClassify(t) ==
  IF Kind(t) # "Ptr" THEN "panic" ELSE "Ptr"

---------------------------------------------------------------------------
\* Result sets.  A row of the query carries an id and a name; the cursor
\* delivers it as a tuple laid out by the cursor's column list.
Rows == { [id |-> 1, name |-> 10], [id |-> 2, name |-> 20] }

ColumnLists ==
  { <<"id", "name">>, <<"name", "id">>, <<"id", "name", "extra">>, <<"id">> }

\* The value a column of a row holds; a column the row type has not holds 99.
ColumnValue(r, c) == IF c = "id" THEN r.id ELSE IF c = "name" THEN r.name ELSE 99
RowTuple(r, cols) == [i \in 1..Len(cols) |-> ColumnValue(r, cols[i])]

\* The record type of every structure destination: fields ID and Name, whose
\* column names are the lower-cased field names.
Fields == {"ID", "Name"}
FieldColumn(f) == IF f = "ID" THEN "id" ELSE "name"
ZeroRecord == [ID |-> 0, Name |-> 0]
ZeroScalar == [val |-> 0]

\* calculateFieldMap(recordType, columns, false): per column the field it
\* loads ("" when no field has that column); an error when a field has no
\* column.
calculateFieldMap(columns) ==
  LET colset == { columns[i] : i \in 1..Len(columns) }
      fm == [i \in 1..Len(columns) |->
               IF \E f \in Fields : FieldColumn(f) = columns[i]
               THEN CHOOSE f \in Fields : FieldColumn(f) = columns[i]
               ELSE ""]
  IN  IF \E f \in Fields : FieldColumn(f) \notin colset
      THEN [err |-> "ErrUnmappedField", fieldMap |-> <<>>]
      ELSE [err |-> "nil", fieldMap |-> fm]

\* holderFor(record, fieldMap): per column the address of the field it loads,
\* or a dummy target that discards the value.
DummyTarget == [addr |-> 0, field |-> "dummy"]
holderFor(a, fieldMap) ==
  [i \in 1..Len(fieldMap) |->
     IF fieldMap[i] = "" THEN DummyTarget ELSE [addr |-> a, field |-> fieldMap[i]]]

\* rows.Scan writes the row's values through the targets, left to right.
RECURSIVE ScanInto(_, _, _, _)
ScanInto(h, targets, vals, n) ==
  IF n = 0 THEN h
  ELSE LET h1 == ScanInto(h, targets, vals, n - 1)
           t  == targets[n]
       IN  IF t.addr = 0 THEN h1 ELSE [h1 EXCEPT ![t.addr][t.field] = vals[n]]

\* A target Scan cannot store a column value into (a pointer to a structure,
\* slice or map handed to LoadValue).
Unscannable(t) == t.field = "*"

\* The outcomes rows.Scan can have for these targets: 0 is success, j > 0
\* is a failure at target j (targets before j are already written), and
\* ScanPanics is a panic.  A wrong number of targets fails before anything
\* is written.
ScanPanics == 0 - 1
ScanOutcomes(targets, vals) ==
  IF Len(targets) # Len(vals) THEN {1}
  ELSE LET bad == { j \in 1..Len(targets) : Unscannable(targets[j]) }
       IN  IF bad # {} THEN { CHOOSE j \in bad : \A k \in bad : j <= k }
           ELSE (0..Len(targets)) \cup {ScanPanics}

ScanResult(h, targets, vals, outcome) ==
  IF Len(targets) # Len(vals) THEN h
  ELSE IF outcome = ScanPanics THEN h
  ELSE IF outcome = 0 THEN ScanInto(h, targets, vals, Len(targets))
  ELSE ScanInto(h, targets, vals, outcome - 1)

---------------------------------------------------------------------------
\* Addresses.  Caller p's structure lives at p, its scalar at p + 2; new
\* records take the smallest address not in use.
StructAddr(p) == p
ScalarAddr(p) == p + 2
\* An allocation that hands out one and the same record every time (a record
\* made once, outside the row loop).
NewAddr_Same(h) == ScalarAddr(2) + 1

NewAddr(h) ==
  CHOOSE a \in 1..(Cardinality(DOMAIN h) + 1) :
    a \notin DOMAIN h /\ \A b \in 1..(a - 1) : b \in DOMAIN h

EmptyMap == [k \in {} |-> 0]

\* A cursor: nRows is the number of rows of its result set, rows the rows it
\* has yielded so far (the last one is the row it is on), endErr whether its
\* iteration ends in an error.
NoCursor == [state |-> "none", nRows |-> 0, rows |-> <<>>, cols |-> <<>>,
             endErr |-> FALSE, exhausted |-> FALSE, closes |-> 0]

ZeroFrame == [op |-> "", dest |-> <<>>, kindOfDest |-> "", fullSql |-> "",
              numberOfRowsReturned |-> 0, columns |-> <<>>, fieldMap |-> <<>>,
              holder |-> <<>>, pointerToNewRecord |-> 0, sliceValue |-> <<>>,
              defers |-> <<>>]

NoResult == [kind |-> "none", n |-> 0, err |-> "nil"]

---------------------------------------------------------------------------
Init ==
  /\ pc = [p \in Procs |-> "idle"]
  /\ fr = [p \in Procs |-> ZeroFrame]
  /\ dst = [p \in Procs |-> [slice |-> <<>>, map |-> EmptyMap,
                              struct |-> StructAddr(p), scalar |-> ScalarAddr(p)]]
  /\ heap = [a \in 1..4 |-> IF a <= 2 THEN ZeroRecord ELSE ZeroScalar]
  /\ cur = [p \in Procs |-> NoCursor]
  /\ sink = [p \in Procs |-> <<>>]
  /\ ret = [p \in Procs |-> NoResult]
  /\ hist = [p \in Procs |-> [calls |-> 0, fetched |-> 0,
                               pre |-> [dst |-> dst[p], heap |-> heap],
                               trace |-> <<>>]]
  /\ quota = [p \in Procs |-> IF p = 1 THEN MaxCalls ELSE 0]

\* What every step records: the collaborator call it made.
Traced(p, what) == hist' = [hist EXCEPT ![p].trace = Append(@, what)]

\* The same for runner.Query, which returned a cursor over n rows.
TracedQuery(p, n) ==
  hist' = [hist EXCEPT ![p].trace = Append(@, "Query"), ![p].fetched = @ + n]

\* return n, err: the deferred functions run next.
Return(p, n, e) ==
  /\ ret' = [ret EXCEPT ![p] = [kind |-> "return", n |-> n, err |-> e]]
  /\ pc' = [pc EXCEPT ![p] = "defers"]

\* A panic unwinds the call: the deferred functions run next.
Panic(p) ==
  /\ ret' = [ret EXCEPT ![p] = [kind |-> "panic", n |-> 0, err |-> "nil"]]
  /\ pc' = [pc EXCEPT ![p] = "defers"]

\* b.EventErrKv(name, err, kvs{"sql": fullSql}): the sink gets the event.
EventErrKv(p, name, e) ==
  sink' = [sink EXCEPT ![p] =
             Append(@, [kind |-> "event", name |-> name, err |-> e, sql |-> fr[p].fullSql])]

\* b.EventErr(name, err): an event without the query text.
EventErr(p, name, e) ==
  sink' = [sink EXCEPT ![p] =
             Append(@, [kind |-> "event", name |-> name, err |-> e, sql |-> ""])]

\* A caller starts a call of loader o with a destination of shape t; k is
\* what the loader's validation makes of t.
Enter(p, o, t, k, next) ==
  /\ pc[p] \in {"idle", "done"}
  /\ hist[p].calls < quota[p]
  /\ fr' = [fr EXCEPT ![p] = [ZeroFrame EXCEPT !.op = o, !.dest = t, !.kindOfDest = k]]
  /\ hist' = [hist EXCEPT ![p] = [calls |-> @.calls + 1, fetched |-> @.fetched,
                                  pre |-> [dst |-> dst[p], heap |-> heap],
                                  trace |-> <<>>]]
  /\ cur' = [cur EXCEPT ![p] = NoCursor]
  /\ sink' = [sink EXCEPT ![p] = <<>>]
  /\ IF k = "panic"
     THEN Panic(p)
     ELSE /\ ret' = [ret EXCEPT ![p] = NoResult]
          /\ pc' = [pc EXCEPT ![p] = next]
  /\ UNCHANGED <<dst, heap, quota>>

\* A loader that starts no timer.
SqlReady_NoTiming(p, next) ==
  /\ fr' = [fr EXCEPT ![p].fullSql = "SQL"]
  /\ pc' = [pc EXCEPT ![p] = next]
  /\ UNCHANGED <<ret, sink>>

\* Interpolate(b.ToSql()) succeeded: fullSql is set and the timing is deferred.
SqlReady(p, next) ==
  /\ fr' = [fr EXCEPT ![p].fullSql = "SQL", ![p].defers = Append(@, "timing")]
  /\ pc' = [pc EXCEPT ![p] = next]
  /\ UNCHANGED <<ret, sink>>

\* A loader that forgets to defer rows.Close().
CursorReady_NoDefer(p, c, next) ==
  /\ cur' = [cur EXCEPT ![p] = c]
  /\ pc' = [pc EXCEPT ![p] = next]
  /\ UNCHANGED <<fr, ret, sink>>

\* b.runner.Query(fullSql) succeeded with cursor c: rows.Close is deferred.
CursorReady(p, c, next) ==
  /\ cur' = [cur EXCEPT ![p] = c]
  /\ fr' = [fr EXCEPT ![p].defers = Append(@, "close")]
  /\ pc' = [pc EXCEPT ![p] = next]
  /\ UNCHANGED <<ret, sink>>

\* The cursors runner.Query can return to caller p.
Cursors(p) ==
  { [NoCursor EXCEPT !.state = "open", !.nRows = n, !.cols = cs, !.endErr = e] :
      n \in 0..(MaxRows - hist[p].fetched), cs \in ColumnLists, e \in BOOLEAN }

\* rows.Next(): TRUE and the cursor on its next row r, or FALSE.
NextRow(c, r) ==
  IF Len(c.rows) < c.nRows
  THEN [more |-> TRUE, cur |-> [c EXCEPT !.rows = Append(@, r)]]
  ELSE [more |-> FALSE, cur |-> [c EXCEPT !.exhausted = TRUE]]

\* rows.Err(): the error that ended the iteration, if any.
RowsErr(c) == IF c.exhausted /\ c.endErr THEN "ErrRows" ELSE "nil"

\* The tuple rows.Scan reads: the row the cursor is on.
CurrentTuple(c) == RowTuple(c.rows[Len(c.rows)], c.cols)

---------------------------------------------------------------------------
\* A loader that empties the destination before it loads.
SliceValueCleared(p) == <<>>

\* Line 88: sliceValue := valueOfDest, the caller's slice as it is.
SliceValueAtEntry(p) == dst[p].slice

\* A loop that does not count the rows it loads.
RowNotCounted(n) == n

\* Line 109: numberOfRowsReturned += 1.
RowCounted(n) == n + 1

\* LoadAll, lines 23-51: validate dest.
LoadAll_Validate(p) ==
  \E t \in DestTypes : Enter(p, "LoadAll", t, LoadAllClassify(t), "la_sql")

\* Lines 56-65.
LoadAll_Interpolate(p) ==
  /\ pc[p] = "la_sql"
  /\ Traced(p, "ToSql")
  /\ \/ SqlReady(p, "la_query")
     \/ /\ EventErr(p, "dbr.select.load_all.interpolate", "ErrInterpolate")
        /\ Return(p, 0, "ErrInterpolate")
        /\ UNCHANGED fr
  /\ UNCHANGED <<dst, heap, cur, quota>>

\* A LoadAll that runs a failed query again.
LoadAll_Query_Retry(p) ==
  /\ pc[p] = "la_query"
  /\ \/ \E c \in Cursors(p) :
          /\ CursorReady(p, c, "la_columns")
          /\ TracedQuery(p, c.nRows)
     \/ /\ EventErrKv(p, "dbr.select.load_all.query", "ErrQuery")
        /\ Traced(p, "Query")
        /\ UNCHANGED <<pc, ret, fr, cur>>
  /\ UNCHANGED <<dst, heap, quota>>

\* Lines 68-72.
LoadAll_Query(p) ==
  /\ pc[p] = "la_query"
  /\ \/ \E c \in Cursors(p) :
          /\ CursorReady(p, c, "la_columns")
          /\ TracedQuery(p, c.nRows)
     \/ /\ EventErrKv(p, "dbr.select.load_all.query", "ErrQuery")
        /\ Return(p, 0, "ErrQuery")
        /\ Traced(p, "Query")
        /\ UNCHANGED <<fr, cur>>
  /\ UNCHANGED <<dst, heap, quota>>

\* Lines 75-78.
LoadAll_Columns(p) ==
  /\ pc[p] = "la_columns"
  /\ Traced(p, "Columns")
  /\ \/ /\ fr' = [fr EXCEPT ![p].columns = cur[p].cols]
        /\ pc' = [pc EXCEPT ![p] = "la_fieldmap"]
        /\ UNCHANGED <<ret, sink>>
     \/ /\ EventErrKv(p, "dbr.select.load_one.rows.Columns", "ErrColumns")
        /\ Return(p, fr[p].numberOfRowsReturned, "ErrColumns")
        /\ UNCHANGED fr
  /\ UNCHANGED <<dst, heap, cur, quota>>

\* A field map kept where every call sees it: a call takes the map another
\* running call has built, when there is one, in place of building its own.
LoadAll_FieldMap_Shared(p) ==
  /\ pc[p] = "la_fieldmap"
  /\ Traced(p, "calculateFieldMap")
  /\ LET others == { q \in Procs \ {p} : fr[q].fieldMap # <<>> }
         m == IF others # {}
              THEN [err |-> "nil", fieldMap |-> fr[CHOOSE q \in others : TRUE].fieldMap]
              ELSE calculateFieldMap(fr[p].columns)
     IN  IF m.err # "nil"
         THEN /\ EventErrKv(p, "dbr.select.load_all.calculateFieldMap", m.err)
              /\ Return(p, fr[p].numberOfRowsReturned, m.err)
              /\ UNCHANGED fr
         ELSE /\ fr' = [fr EXCEPT ![p].fieldMap = m.fieldMap,
                                  ![p].sliceValue =
                                     IF fr[p].kindOfDest = "Slice" THEN SliceValueAtEntry(p) ELSE <<>>]
              /\ pc' = [pc EXCEPT ![p] =
                          IF fr[p].kindOfDest = "Slice" THEN "la_next" ELSE "la_err"]
              /\ UNCHANGED <<ret, sink>>
  /\ UNCHANGED <<dst, heap, cur, quota>>

\* Lines 81-88: build the field map; a slice destination enters the row loop
\* with sliceValue := valueOfDest, a map destination has no loop.
LoadAll_FieldMap(p) ==
  /\ pc[p] = "la_fieldmap"
  /\ Traced(p, "calculateFieldMap")
  /\ LET m == calculateFieldMap(fr[p].columns)
     IN  IF m.err # "nil"
         THEN /\ EventErrKv(p, "dbr.select.load_all.calculateFieldMap", m.err)
              /\ Return(p, fr[p].numberOfRowsReturned, m.err)
              /\ UNCHANGED fr
         ELSE /\ fr' = [fr EXCEPT ![p].fieldMap = m.fieldMap,
                                  ![p].sliceValue =
                                     IF fr[p].kindOfDest = "Slice" THEN SliceValueAtEntry(p) ELSE <<>>]
              /\ pc' = [pc EXCEPT ![p] =
                          IF fr[p].kindOfDest = "Slice" THEN "la_next" ELSE "la_err"]
              /\ UNCHANGED <<ret, sink>>
  /\ UNCHANGED <<dst, heap, cur, quota>>

\* Lines 89 and 111: rows.Next(); when the loop ends, valueOfDest.Set(sliceValue).
LoadAll_Next(p) ==
  /\ pc[p] = "la_next"
  /\ Traced(p, "Next")
  /\ \E r \in Rows :
       LET nx == NextRow(cur[p], r)
       IN
         /\ cur' = [cur EXCEPT ![p] = nx.cur]
         /\ IF nx.more
            THEN /\ pc' = [pc EXCEPT ![p] = "la_holder"]
                 /\ UNCHANGED dst
            ELSE /\ pc' = [pc EXCEPT ![p] = "la_err"]
                 /\ dst' = [dst EXCEPT ![p].slice = fr[p].sliceValue]
  /\ UNCHANGED <<fr, heap, sink, ret, quota>>

\* Lines 91-98: allocate the record of this row and build its holder.
LoadAll_Holder(p) ==
  /\ pc[p] = "la_holder"
  /\ Traced(p, "holderFor")
  /\ LET a == NewAddr(heap)
     IN  /\ heap' = [x \in DOMAIN heap \cup {a} |-> IF x = a THEN ZeroRecord ELSE heap[x]]
         /\ \/ /\ fr' = [fr EXCEPT ![p].pointerToNewRecord = a,
                                   ![p].holder = holderFor(a, fr[p].fieldMap)]
               /\ pc' = [pc EXCEPT ![p] = "la_scan"]
               /\ UNCHANGED <<ret, sink>>
            \/ /\ fr' = [fr EXCEPT ![p].pointerToNewRecord = a]
               /\ EventErrKv(p, "dbr.select.load_all.holderFor", "ErrHolder")
               /\ Return(p, fr[p].numberOfRowsReturned, "ErrHolder")
            \/ /\ fr' = [fr EXCEPT ![p].pointerToNewRecord = a]
               /\ Panic(p)
               /\ UNCHANGED sink
  /\ UNCHANGED <<dst, cur, quota>>

\* A LoadAll that appends every scanned record to the caller's slice at once.
LoadAll_Scan_Commit(p) ==
  /\ pc[p] = "la_scan"
  /\ Traced(p, "Scan")
  /\ \E o \in ScanOutcomes(fr[p].holder, CurrentTuple(cur[p])) :
       /\ heap' = ScanResult(heap, fr[p].holder, CurrentTuple(cur[p]), o)
       /\ IF o = 0
          THEN /\ fr' = [fr EXCEPT ![p].sliceValue = Append(@, fr[p].pointerToNewRecord),
                                   ![p].numberOfRowsReturned = RowCounted(@)]
               /\ dst' = [dst EXCEPT ![p].slice = Append(@, fr[p].pointerToNewRecord)]
               /\ pc' = [pc EXCEPT ![p] = "la_next"]
               /\ UNCHANGED <<ret, sink>>
          ELSE IF o = ScanPanics
          THEN /\ Panic(p)
               /\ UNCHANGED <<fr, sink, dst>>
          ELSE /\ EventErrKv(p, "dbr.select.load_all.scan", "ErrScan")
               /\ Return(p, fr[p].numberOfRowsReturned, "ErrScan")
               /\ UNCHANGED <<fr, dst>>
  /\ UNCHANGED <<cur, quota>>

\* Lines 101-109: scan the row into the holder, append the record, count it.
LoadAll_Scan(p) ==
  /\ pc[p] = "la_scan"
  /\ Traced(p, "Scan")
  /\ \E o \in ScanOutcomes(fr[p].holder, CurrentTuple(cur[p])) :
       /\ heap' = ScanResult(heap, fr[p].holder, CurrentTuple(cur[p]), o)
       /\ IF o = 0
          THEN /\ fr' = [fr EXCEPT ![p].sliceValue = Append(@, fr[p].pointerToNewRecord),
                                   ![p].numberOfRowsReturned = RowCounted(@)]
               /\ pc' = [pc EXCEPT ![p] = "la_next"]
               /\ UNCHANGED <<ret, sink>>
          ELSE IF o = ScanPanics
          THEN /\ Panic(p)
               /\ UNCHANGED <<fr, sink>>
          ELSE /\ EventErrKv(p, "dbr.select.load_all.scan", "ErrScan")
               /\ Return(p, fr[p].numberOfRowsReturned, "ErrScan")
               /\ UNCHANGED fr
  /\ UNCHANGED <<dst, cur, quota>>

\* Lines 117-121.
LoadAll_RowsErr(p) ==
  /\ pc[p] = "la_err"
  /\ Traced(p, "Err")
  /\ IF RowsErr(cur[p]) # "nil"
     THEN /\ EventErrKv(p, "dbr.select.load_all.rows_err", RowsErr(cur[p]))
          /\ Return(p, fr[p].numberOfRowsReturned, RowsErr(cur[p]))
     ELSE /\ Return(p, fr[p].numberOfRowsReturned, "nil")
          /\ UNCHANGED sink
  /\ UNCHANGED <<fr, dst, heap, cur, quota>>

---------------------------------------------------------------------------
\* LoadOne, lines 125-137: validate dest.
LoadOne_Validate(p) ==
  \E t \in DestTypes : Enter(p, "LoadOne", t, LoadOneClassify(t), "lo_sql")

\* Lines 142-149.
LoadOne_Interpolate(p) ==
  /\ pc[p] = "lo_sql"
  /\ Traced(p, "ToSql")
  /\ \/ SqlReady(p, "lo_query")
     \/ /\ Return(p, 0, "ErrInterpolate")
        /\ UNCHANGED <<fr, sink>>
  /\ UNCHANGED <<dst, heap, cur, quota>>

\* Lines 152-156.
LoadOne_Query(p) ==
  /\ pc[p] = "lo_query"
  /\ \/ \E c \in Cursors(p) :
          /\ CursorReady(p, c, "lo_columns")
          /\ TracedQuery(p, c.nRows)
     \/ /\ EventErrKv(p, "dbr.select.load_one.query", "ErrQuery")
        /\ Return(p, 0, "ErrQuery")
        /\ Traced(p, "Query")
        /\ UNCHANGED <<fr, cur>>
  /\ UNCHANGED <<dst, heap, quota>>

\* Lines 159-162.
LoadOne_Columns(p) ==
  /\ pc[p] = "lo_columns"
  /\ Traced(p, "Columns")
  /\ \/ /\ fr' = [fr EXCEPT ![p].columns = cur[p].cols]
        /\ pc' = [pc EXCEPT ![p] = "lo_fieldmap"]
        /\ UNCHANGED <<ret, sink>>
     \/ /\ EventErrKv(p, "dbr.select.load_one.rows.Columns", "ErrColumns")
        /\ Return(p, 0, "ErrColumns")
        /\ UNCHANGED fr
  /\ UNCHANGED <<dst, heap, cur, quota>>

\* A LoadOne that tolerates a field without a column.
LoadOne_FieldMap_Tolerant(p) ==
  /\ pc[p] = "lo_fieldmap"
  /\ Traced(p, "calculateFieldMap")
  /\ fr' = [fr EXCEPT ![p].fieldMap = calculateFieldMap(fr[p].columns).fieldMap]
  /\ pc' = [pc EXCEPT ![p] = "lo_next"]
  /\ UNCHANGED <<ret, sink, dst, heap, cur, quota>>

\* Lines 165-168.
LoadOne_FieldMap(p) ==
  /\ pc[p] = "lo_fieldmap"
  /\ Traced(p, "calculateFieldMap")
  /\ LET m == calculateFieldMap(fr[p].columns)
     IN  IF m.err # "nil"
         THEN /\ EventErrKv(p, "dbr.select.load_one.calculateFieldMap", m.err)
              /\ Return(p, 0, m.err)
              /\ UNCHANGED fr
         ELSE /\ fr' = [fr EXCEPT ![p].fieldMap = m.fieldMap]
              /\ pc' = [pc EXCEPT ![p] = "lo_next"]
              /\ UNCHANGED <<ret, sink>>
  /\ UNCHANGED <<dst, heap, cur, quota>>

\* Line 170: if rows.Next().
LoadOne_Next(p) ==
  /\ pc[p] = "lo_next"
  /\ Traced(p, "Next")
  /\ \E r \in Rows :
       LET nx == NextRow(cur[p], r)
       IN
         /\ cur' = [cur EXCEPT ![p] = nx.cur]
         /\ pc' = [pc EXCEPT ![p] = IF nx.more THEN "lo_holder" ELSE "lo_err"]
  /\ UNCHANGED <<fr, dst, heap, sink, ret, quota>>

\* Lines 172-175: the holder addresses the fields of the caller's structure.
LoadOne_Holder(p) ==
  /\ pc[p] = "lo_holder"
  /\ Traced(p, "holderFor")
  /\ \/ /\ fr' = [fr EXCEPT ![p].holder = holderFor(dst[p].struct, fr[p].fieldMap)]
        /\ pc' = [pc EXCEPT ![p] = "lo_scan"]
        /\ UNCHANGED <<ret, sink>>
     \/ /\ EventErrKv(p, "dbr.select.load_one.holderFor", "ErrHolder")
        /\ Return(p, 0, "ErrHolder")
        /\ UNCHANGED fr
     \/ /\ Panic(p)
        /\ UNCHANGED <<fr, sink>>
  /\ UNCHANGED <<dst, heap, cur, quota>>

\* A LoadOne that goes on to the next row after a scan (for instead of if).
LoadOne_Scan_Loop(p) ==
  /\ pc[p] = "lo_scan"
  /\ Traced(p, "Scan")
  /\ \E o \in ScanOutcomes(fr[p].holder, CurrentTuple(cur[p])) :
       /\ heap' = ScanResult(heap, fr[p].holder, CurrentTuple(cur[p]), o)
       /\ IF o = 0
          THEN /\ pc' = [pc EXCEPT ![p] = "lo_next"]
               /\ UNCHANGED <<ret, sink>>
          ELSE IF o = ScanPanics
          THEN /\ Panic(p)
               /\ UNCHANGED sink
          ELSE /\ EventErrKv(p, "dbr.select.load_one.scan", "ErrScan")
               /\ Return(p, 0, "ErrScan")
  /\ UNCHANGED <<fr, dst, cur, quota>>

\* Lines 178-182.
LoadOne_Scan(p) ==
  /\ pc[p] = "lo_scan"
  /\ Traced(p, "Scan")
  /\ \E o \in ScanOutcomes(fr[p].holder, CurrentTuple(cur[p])) :
       /\ heap' = ScanResult(heap, fr[p].holder, CurrentTuple(cur[p]), o)
       /\ IF o = 0
          THEN /\ Return(p, 0, "nil")
               /\ UNCHANGED sink
          ELSE IF o = ScanPanics
          THEN /\ Panic(p)
               /\ UNCHANGED sink
          ELSE /\ EventErrKv(p, "dbr.select.load_one.scan", "ErrScan")
               /\ Return(p, 0, "ErrScan")
  /\ UNCHANGED <<fr, dst, cur, quota>>

\* A LoadOne that reports no row as success.
LoadOne_RowsErr_Nil(p) ==
  /\ pc[p] = "lo_err"
  /\ Traced(p, "Err")
  /\ IF RowsErr(cur[p]) # "nil"
     THEN /\ EventErrKv(p, "dbr.select.load_one.rows_err", RowsErr(cur[p]))
          /\ Return(p, 0, RowsErr(cur[p]))
     ELSE /\ Return(p, 0, "nil")
          /\ UNCHANGED sink
  /\ UNCHANGED <<fr, dst, heap, cur, quota>>

\* Lines 185-189.
LoadOne_RowsErr(p) ==
  /\ pc[p] = "lo_err"
  /\ Traced(p, "Err")
  /\ IF RowsErr(cur[p]) # "nil"
     THEN /\ EventErrKv(p, "dbr.select.load_one.rows_err", RowsErr(cur[p]))
          /\ Return(p, 0, RowsErr(cur[p]))
     ELSE /\ Return(p, 0, "ErrNotFound")
          /\ UNCHANGED sink
  /\ UNCHANGED <<fr, dst, heap, cur, quota>>

---------------------------------------------------------------------------
\* LoadValue, lines 193-200: validate dest.
LoadValue_Validate(p) ==
  \E t \in DestTypes : Enter(p, "LoadValue", t, LoadValueClassify(t), "lv_sql")

\* Lines 205-212.
LoadValue_Interpolate(p) ==
  /\ pc[p] = "lv_sql"
  /\ Traced(p, "ToSql")
  /\ \/ SqlReady(p, "lv_query")
     \/ /\ Return(p, 0, "ErrInterpolate")
        /\ UNCHANGED <<fr, sink>>
  /\ UNCHANGED <<dst, heap, cur, quota>>

\* Lines 215-219.
LoadValue_Query(p) ==
  /\ pc[p] = "lv_query"
  /\ \/ \E c \in Cursors(p) :
          /\ CursorReady(p, c, "lv_next")
          /\ TracedQuery(p, c.nRows)
     \/ /\ EventErrKv(p, "dbr.select.load_value.query", "ErrQuery")
        /\ Return(p, 0, "ErrQuery")
        /\ Traced(p, "Query")
        /\ UNCHANGED <<fr, cur>>
  /\ UNCHANGED <<dst, heap, quota>>

\* Line 221: if rows.Next().
LoadValue_Next(p) ==
  /\ pc[p] = "lv_next"
  /\ Traced(p, "Next")
  /\ \E r \in Rows :
       LET nx == NextRow(cur[p], r)
       IN
         /\ cur' = [cur EXCEPT ![p] = nx.cur]
         /\ pc' = [pc EXCEPT ![p] = IF nx.more THEN "lv_scan" ELSE "lv_err"]
  /\ UNCHANGED <<fr, dst, heap, sink, ret, quota>>

\* A LoadValue that scans into the first field of the caller's structure.
ValueTarget_Field(p, t) == [addr |-> dst[p].struct, field |-> "ID"]

\* The one target LoadValue hands to rows.Scan: dest itself.  Scan stores a
\* column value through a pointer to a scalar and through no other pointer.
ValueTarget(p, t) ==
  IF t = PtrInt THEN [addr |-> dst[p].scalar, field |-> "val"]
  ELSE [addr |-> 0, field |-> "*"]

\* A LoadValue that reports a failed scan as "not found".
LoadValue_Scan_NotFound(p) ==
  /\ pc[p] = "lv_scan"
  /\ Traced(p, "Scan")
  /\ LET targets == << ValueTarget(p, fr[p].dest) >>
     IN  \E o \in ScanOutcomes(targets, CurrentTuple(cur[p])) :
           /\ heap' = ScanResult(heap, targets, CurrentTuple(cur[p]), o)
           /\ fr' = [fr EXCEPT ![p].holder = targets]
           /\ IF o = 0
              THEN /\ Return(p, 0, "nil")
                   /\ UNCHANGED sink
              ELSE IF o = ScanPanics
              THEN /\ Panic(p)
                   /\ UNCHANGED sink
              ELSE /\ EventErrKv(p, "dbr.select.load_value.scan", "ErrScan")
                   /\ Return(p, 0, "ErrNotFound")
  /\ UNCHANGED <<dst, cur, quota>>

\* Lines 222-226.
LoadValue_Scan(p) ==
  /\ pc[p] = "lv_scan"
  /\ Traced(p, "Scan")
  /\ LET targets == << ValueTarget(p, fr[p].dest) >>
     IN  \E o \in ScanOutcomes(targets, CurrentTuple(cur[p])) :
           /\ heap' = ScanResult(heap, targets, CurrentTuple(cur[p]), o)
           /\ fr' = [fr EXCEPT ![p].holder = targets]
           /\ IF o = 0
              THEN /\ Return(p, 0, "nil")
                   /\ UNCHANGED sink
              ELSE IF o = ScanPanics
              THEN /\ Panic(p)
                   /\ UNCHANGED sink
              ELSE /\ EventErrKv(p, "dbr.select.load_value.scan", "ErrScan")
                   /\ Return(p, 0, "ErrScan")
  /\ UNCHANGED <<dst, cur, quota>>

\* Lines 229-233.
LoadValue_RowsErr(p) ==
  /\ pc[p] = "lv_err"
  /\ Traced(p, "Err")
  /\ IF RowsErr(cur[p]) # "nil"
     THEN /\ EventErrKv(p, "dbr.select.load_value.rows_err", RowsErr(cur[p]))
          /\ Return(p, 0, RowsErr(cur[p]))
     ELSE /\ Return(p, 0, "ErrNotFound")
          /\ UNCHANGED sink
  /\ UNCHANGED <<fr, dst, heap, cur, quota>>

---------------------------------------------------------------------------
\* The deferred functions run last in, first out, on return and on panic.
TopDeferred(p) == fr[p].defers[Len(fr[p].defers)]
PopDeferred(p) == fr' = [fr EXCEPT ![p].defers = SubSeq(@, 1, Len(@) - 1)]

\* defer rows.Close() (lines 72, 156, 219).
DeferredClose(p) ==
  /\ pc[p] = "defers"
  /\ fr[p].defers # <<>>
  /\ TopDeferred(p) = "close"
  /\ PopDeferred(p)
  /\ cur' = [cur EXCEPT ![p].state = "closed", ![p].closes = @ + 1]
  /\ Traced(p, "Close")
  /\ UNCHANGED <<pc, dst, heap, sink, ret, quota>>

\* defer b.TimingKv("dbr.select", ..., kvs{"sql": fullSql}) (lines 65, 149, 212).
DeferredTiming(p) ==
  /\ pc[p] = "defers"
  /\ fr[p].defers # <<>>
  /\ TopDeferred(p) = "timing"
  /\ PopDeferred(p)
  /\ sink' = [sink EXCEPT ![p] =
                Append(@, [kind |-> "timing", name |-> "dbr.select", err |-> "nil",
                           sql |-> fr[p].fullSql])]
  /\ UNCHANGED <<pc, dst, heap, cur, ret, hist, quota>>

\* The addresses still referenced once caller p's call is over: the callers'
\* destinations and the locals of the other running calls.
Live(p) ==
  (1..4)
  \cup UNION { { dst[q].slice[i] : i \in 1..Len(dst[q].slice) } : q \in Procs }
  \cup UNION { { dst[q].map[k] : k \in DOMAIN dst[q].map } : q \in Procs }
  \cup UNION { { fr[q].sliceValue[i] : i \in 1..Len(fr[q].sliceValue) }
               \cup ({ fr[q].pointerToNewRecord } \ {0}) : q \in Procs \ {p} }

\* The call is over: its locals are gone, and with them the records only
\* they referenced.
Exit(p) ==
  /\ pc[p] = "defers"
  /\ fr[p].defers = <<>>
  /\ pc' = [pc EXCEPT ![p] = "done"]
  /\ fr' = [fr EXCEPT ![p] = [ZeroFrame EXCEPT !.op = fr[p].op, !.dest = fr[p].dest,
                                               !.kindOfDest = fr[p].kindOfDest]]
  /\ heap' = [a \in DOMAIN heap \cap Live(p) |-> heap[a]]
  /\ UNCHANGED <<dst, cur, sink, ret, hist, quota>>

---------------------------------------------------------------------------
LoadAll(p) ==
  \/ LoadAll_Validate(p)
  \/ LoadAll_Interpolate(p)
  \/ LoadAll_Query(p)
  \/ LoadAll_Columns(p)
  \/ LoadAll_FieldMap(p)
  \/ LoadAll_Next(p)
  \/ LoadAll_Holder(p)
  \/ LoadAll_Scan(p)
  \/ LoadAll_RowsErr(p)

LoadOne(p) ==
  \/ LoadOne_Validate(p)
  \/ LoadOne_Interpolate(p)
  \/ LoadOne_Query(p)
  \/ LoadOne_Columns(p)
  \/ LoadOne_FieldMap(p)
  \/ LoadOne_Next(p)
  \/ LoadOne_Holder(p)
  \/ LoadOne_Scan(p)
  \/ LoadOne_RowsErr(p)

LoadValue(p) ==
  \/ LoadValue_Validate(p)
  \/ LoadValue_Interpolate(p)
  \/ LoadValue_Query(p)
  \/ LoadValue_Next(p)
  \/ LoadValue_Scan(p)
  \/ LoadValue_RowsErr(p)

Next ==
  \E p \in Procs :
    \/ LoadAll(p)
    \/ LoadOne(p)
    \/ LoadValue(p)
    \/ DeferredClose(p)
    \/ DeferredTiming(p)
    \/ Exit(p)

Spec == Init /\ [][Next]_vars

----------------------------------------------------------------------------
\* Two callers, one call each, running at the same time over a runner that
\* serves both: each has its own destinations (Init gives every caller its
\* own), and the steps of the two calls interleave freely.
MaxConcRows == 1

InitConc ==
  /\ pc = [p \in Procs |-> "idle"]
  /\ fr = [p \in Procs |-> ZeroFrame]
  /\ dst = [p \in Procs |-> [slice |-> <<>>, map |-> EmptyMap,
                              struct |-> StructAddr(p), scalar |-> ScalarAddr(p)]]
  /\ heap = [a \in 1..4 |-> IF a <= 2 THEN ZeroRecord ELSE ZeroScalar]
  /\ cur = [p \in Procs |-> NoCursor]
  /\ sink = [p \in Procs |-> <<>>]
  /\ ret = [p \in Procs |-> NoResult]
  /\ hist = [p \in Procs |-> [calls |-> 0, fetched |-> 0,
                               pre |-> [dst |-> dst[p], heap |-> heap], trace |-> <<>>]]
  /\ quota = [p \in Procs |-> 1]

\* The inputs of the concurrent runs: destinations the validation accepts (a
\* pointer to an integer for LoadValue), cursors of at most MaxConcRows rows
\* whose columns are the two fields in either order and whose iteration ends
\* without error, and rows that carry the number of the caller whose query
\* returned them.
ConcInputs ==
  \A p \in Procs :
    /\ fr[p].kindOfDest # "panic"
    /\ fr[p].op = "LoadValue" => fr[p].dest = PtrInt
    /\ cur[p].state # "none" =>
         /\ cur[p].cols \in {<<"id", "name">>, <<"name", "id">>}
         /\ cur[p].nRows <= MaxConcRows
         /\ ~cur[p].endErr
         /\ \A i \in 1..Len(cur[p].rows) : cur[p].rows[i].id = p

SpecConc == InitConc /\ [][Next /\ ConcInputs']_vars

---------------------------------------------------------------------------
\* Properties.

\* The call of caller p is over and returned (it did not panic).
Returned(p, o) == pc[p] = "done" /\ fr[p].op = o /\ ret[p].kind = "return"

\* The record a row loads.
RecordOf(r) == [ID |-> r.id, Name |-> r.name]

\* Number of times the call of p made collaborator call c.
CountOf(p, c) == Cardinality({ i \in 1..Len(hist[p].trace) : hist[p].trace[i] = c })

\* Caller p's destinations and every record are as they were at call entry.
Untouched(p) == dst[p] = hist[p].pre.dst /\ heap = hist[p].pre.heap

\* C1: a LoadAll into a slice that returns without error returns the number
\* of rows of the cursor, and leaves in the slice what it held before the
\* call followed by one newly allocated record per row, in row order, each
\* holding the values of its row.
C1_SequenceAppend ==
  \A p \in Procs :
    (Returned(p, "LoadAll") /\ fr[p].kindOfDest = "Slice" /\ ret[p].err = "nil") =>
      LET old == hist[p].pre.dst.slice
          new == dst[p].slice
          n   == cur[p].nRows
      IN  /\ ret[p].n = n
          /\ cur[p].rows \in Seq(Rows) /\ Len(cur[p].rows) = n
          /\ Len(new) = Len(old) + n
          /\ SubSeq(new, 1, Len(old)) = old
          /\ \A i \in 1..Len(old) : heap[old[i]] = hist[p].pre.heap[old[i]]
          /\ \A i \in 1..n :
               /\ new[Len(old) + i] \notin DOMAIN hist[p].pre.heap
               /\ heap[new[Len(old) + i]] = RecordOf(cur[p].rows[i])

\* C1 witness: a second LoadAll added rows to a slice that held some, from a
\* cursor whose columns are not in field order.
C1_Witness ==
  \E p \in Procs :
    /\ Returned(p, "LoadAll") /\ fr[p].kindOfDest = "Slice" /\ ret[p].err = "nil"
    /\ hist[p].calls = 2
    /\ hist[p].pre.dst.slice # <<>>
    /\ cur[p].nRows >= 1
    /\ cur[p].cols = <<"name", "id">>

\* The query executed, and its result set has no row and no iteration error.
ZeroRows(p) ==
  /\ pc[p] = "done" /\ ret[p].kind = "return"
  /\ cur[p].state # "none"
  /\ cur[p].nRows = 0 /\ ~cur[p].endErr

\* What C2 promises of a call over such a result set.
ZeroRowsOutcome(p) ==
  IF fr[p].op = "LoadAll"
  THEN ret[p].n = 0 /\ ret[p].err = "nil" /\ Untouched(p)
  ELSE ret[p].err = "ErrNotFound"

\* C2 as stated: a query that executes and yields zero rows without an
\* iteration error makes LoadAll return (0, nil) with the destination
\* unchanged, and LoadOne and LoadValue return ErrNotFound.
C2_Original == \A p \in Procs : ZeroRows(p) => ZeroRowsOutcome(p)

\* rows.Columns() and the field map build of the call succeeded.
Mapped(p) ==
  /\ CountOf(p, "calculateFieldMap") = 1
  /\ calculateFieldMap(cur[p].cols).err = "nil"

\* C2 amended: the same, for LoadAll and LoadOne provided rows.Columns() and
\* the field map build succeeded (LoadValue uses neither).
C2_ZeroRows ==
  \A p \in Procs :
    (ZeroRows(p) /\ (fr[p].op \in {"LoadAll", "LoadOne"} => Mapped(p))) => ZeroRowsOutcome(p)

\* C2 witness: LoadOne found no row and returned ErrNotFound.
C2_Witness ==
  \E p \in Procs :
    /\ ZeroRows(p) /\ fr[p].op = "LoadOne" /\ Mapped(p)
    /\ ret[p].err = "ErrNotFound"

\* C3: LoadOne advances the cursor at most once and scans at most once, into
\* the caller's own structure and nowhere else; when it returns nil that
\* structure holds the first row and nothing else was allocated or written.
C3_LoadOneFirstRow ==
  \A p \in Procs :
    fr[p].op = "LoadOne" =>
      /\ CountOf(p, "Next") <= 1
      /\ CountOf(p, "Scan") <= 1
      /\ Len(cur[p].rows) <= 1
      /\ \A i \in 1..Len(fr[p].holder) : fr[p].holder[i].addr \in {0, dst[p].struct}
      /\ (Returned(p, "LoadOne") /\ ret[p].err = "nil") =>
           /\ cur[p].nRows >= 1
           /\ heap[dst[p].struct] = RecordOf(cur[p].rows[1])
           /\ dst[p] = hist[p].pre.dst
           /\ DOMAIN heap = DOMAIN hist[p].pre.heap
           /\ \A a \in DOMAIN heap \ {dst[p].struct} : heap[a] = hist[p].pre.heap[a]

\* C3 witness: LoadOne returned nil over a cursor that holds a second row,
\* and changed the structure.
C3_Witness ==
  \E p \in Procs :
    /\ Returned(p, "LoadOne") /\ ret[p].err = "nil"
    /\ cur[p].nRows = 2
    /\ heap[dst[p].struct] # hist[p].pre.heap[dst[p].struct]

\* C4: a cursor that runner.Query returned is closed exactly once by the
\* time the call is over, however the call ends; without a cursor nothing is
\* closed; and no cursor is ever closed twice.
C4_CursorReleased ==
  \A p \in Procs :
    /\ cur[p].closes <= 1
    /\ pc[p] = "done" =>
         IF cur[p].state # "none"
         THEN cur[p].state = "closed" /\ cur[p].closes = 1 /\ CountOf(p, "Close") = 1
         ELSE cur[p].closes = 0 /\ CountOf(p, "Close") = 0

\* C4 witness: a LoadAll that panicked while scanning its second row is over,
\* with its cursor closed.
C4_Witness ==
  \E p \in Procs :
    /\ pc[p] = "done" /\ fr[p].op = "LoadAll" /\ ret[p].kind = "panic"
    /\ CountOf(p, "Scan") = 2
    /\ cur[p].closes = 1

\* The destination shapes LoadAll and LoadOne accept.
ShapeAccepted(o, t) ==
  IF o = "LoadAll" THEN t \in {PtrSlicePtrStruct, MapPtrStruct, PtrMapPtrStruct}
  ELSE t = PtrStruct

C6_KeyedLoad ==
  \A p \in Procs :
    (Returned(p, "LoadAll") /\ fr[p].kindOfDest = "Map" /\ ret[p].err = "nil") =>
      LET rows == cur[p].rows
      IN  /\ ret[p].n = cur[p].nRows
          /\ Len(rows) = cur[p].nRows
          /\ \A i \in 1..Len(rows) :
               /\ rows[i].id \in DOMAIN dst[p].map
               /\ LET last == CHOOSE j \in 1..Len(rows) :
                                /\ rows[j].id = rows[i].id
                                /\ \A k \in (j + 1)..Len(rows) : rows[k].id # rows[i].id
                  IN  heap[dst[p].map[rows[i].id]] = RecordOf(rows[last])

\* C7: a LoadAll into a slice that fails while building the holder of a row
\* or scanning it returns at once the number of rows scanned before, and one
\* that ends on a cursor error returns the number of rows scanned.
C7_PartialCount ==
  \A p \in Procs :
    (Returned(p, "LoadAll") /\ fr[p].kindOfDest = "Slice") =>
      /\ ret[p].err \in {"ErrHolder", "ErrScan"} =>
           LET k == CountOf(p, "Scan") - (IF ret[p].err = "ErrScan" THEN 1 ELSE 0)
               t == hist[p].trace
           IN  /\ ret[p].n = k
               /\ CountOf(p, "Next") = k + 1
               /\ Len(cur[p].rows) = k + 1
               /\ ~cur[p].exhausted
               /\ t[Len(t)] = "Close"
               /\ t[Len(t) - 1] = (IF ret[p].err = "ErrScan" THEN "Scan" ELSE "holderFor")
      /\ ret[p].err = "ErrRows" =>
           /\ ret[p].n = CountOf(p, "Scan")
           /\ ret[p].n = Len(cur[p].rows)
           /\ CountOf(p, "Next") = ret[p].n + 1
           /\ cur[p].exhausted

\* C7 witness: the scan of the second row failed and LoadAll returned 1.
C7_Witness ==
  \E p \in Procs :
    /\ Returned(p, "LoadAll") /\ fr[p].kindOfDest = "Slice"
    /\ ret[p].err = "ErrScan"
    /\ ret[p].n = 1

\* The field map build of the call ran and found a field without a column.
Unmapped(p) ==
  /\ fr[p].op \in {"LoadAll", "LoadOne"}
  /\ CountOf(p, "calculateFieldMap") = 1
  /\ calculateFieldMap(cur[p].cols).err # "nil"

\* C8: when the field map build reports a field without a column, LoadAll
\* and LoadOne return that error (LoadAll with count 0) without advancing or
\* scanning the cursor, and the destinations are unchanged.
C8_UnmappedField ==
  \A p \in Procs :
    Unmapped(p) =>
      /\ ret[p] = [kind |-> "return", n |-> 0, err |-> "ErrUnmappedField"]
      /\ CountOf(p, "Next") = 0
      /\ CountOf(p, "Scan") = 0
      /\ CountOf(p, "holderFor") = 0
      /\ Untouched(p)

\* C8 witness: a second call, LoadOne over columns that miss a field, is over
\* after a first call had loaded the structure.
C8_Witness ==
  \E p \in Procs :
    /\ Unmapped(p) /\ fr[p].op = "LoadOne" /\ pc[p] = "done"
    /\ heap[dst[p].struct] # ZeroRecord

\* C9: a LoadOne or LoadValue that returns ErrNotFound never scanned, and the
\* destinations are what they were before the call; LoadAll never returns it.
C9_NotFoundUntouched ==
  \A p \in Procs :
    (pc[p] = "done" /\ ret[p].kind = "return" /\ ret[p].err = "ErrNotFound") =>
      /\ fr[p].op \in {"LoadOne", "LoadValue"}
      /\ CountOf(p, "Scan") = 0
      /\ Untouched(p)

\* C9 witness: LoadValue returned ErrNotFound and left alone the value an
\* earlier call had loaded.
C9_Witness ==
  \E p \in Procs :
    /\ Returned(p, "LoadValue") /\ ret[p].err = "ErrNotFound"
    /\ fr[p].dest = PtrInt
    /\ heap[dst[p].scalar] # ZeroScalar

\* C10: a call that returns a non-nil error has sent the sink an event with
\* that error.
C10_ErrorsForwarded ==
  \A p \in Procs :
    (pc[p] = "done" /\ ret[p].kind = "return" /\ ret[p].err # "nil") =>
      \E i \in 1..Len(sink[p]) : sink[p][i].kind = "event" /\ sink[p][i].err = ret[p].err

\* The timings the sink received during the call of p.
Timings(p) == { i \in 1..Len(sink[p]) : sink[p][i].kind = "timing" }

\* The call of p is over and its destination had passed the validation.
Validated(p) == pc[p] = "done" /\ fr[p].kindOfDest # "panic"

\* C11 as stated: every call that passed the validation has sent the sink
\* exactly one timing by the time it is over, a failure to build the query
\* text included.
C11_Original ==
  \A p \in Procs : Validated(p) => Cardinality(Timings(p)) = 1

\* C11 amended: a call that obtained its query text sends exactly one timing,
\* with that text and after its events, however it ends (return or panic); a
\* call whose query text could not be built sends none.
C11_TimingOnce ==
  \A p \in Procs :
    /\ Cardinality(Timings(p)) <= 1
    /\ Validated(p) =>
         IF CountOf(p, "Query") = 1
         THEN /\ Timings(p) = { Len(sink[p]) }
              /\ sink[p][Len(sink[p])].sql = "SQL"
              /\ sink[p][Len(sink[p])].name = "dbr.select"
         ELSE /\ Timings(p) = {}
              /\ ret[p].err = "ErrInterpolate"

\* C11 witness: a LoadValue whose scan panicked is over and sent its timing.
C11_Witness ==
  \E p \in Procs :
    /\ Validated(p) /\ fr[p].op = "LoadValue" /\ ret[p].kind = "panic"
    /\ Cardinality(Timings(p)) = 1

\* The loader an event name is tagged with (dbr.select.<loader>.<step>).
LoaderTag(name) ==
  IF name \in { "dbr.select.load_all.interpolate", "dbr.select.load_all.query",
                "dbr.select.load_all.calculateFieldMap", "dbr.select.load_all.holderFor",
                "dbr.select.load_all.scan", "dbr.select.load_all.rows_err" }
  THEN "load_all"
  ELSE IF name \in { "dbr.select.load_one.query", "dbr.select.load_one.rows.Columns",
                     "dbr.select.load_one.calculateFieldMap", "dbr.select.load_one.holderFor",
                     "dbr.select.load_one.scan", "dbr.select.load_one.rows_err" }
  THEN "load_one"
  ELSE IF name \in { "dbr.select.load_value.query", "dbr.select.load_value.scan",
                     "dbr.select.load_value.rows_err" }
  THEN "load_value"
  ELSE "none"

\* The tag of a loader.
TagOf(o) ==
  IF o = "LoadAll" THEN "load_all" ELSE IF o = "LoadOne" THEN "load_one" ELSE "load_value"

\* C12: every event a call sends is tagged with the loader that was called,
\* and every event sent once the query text was obtained carries that text.
C12_EventsTagged ==
  \A p \in Procs :
    \A i \in 1..Len(sink[p]) :
      sink[p][i].kind = "event" =>
        /\ LoaderTag(sink[p][i].name) = TagOf(fr[p].op)
        /\ sink[p][i].err # "ErrInterpolate" => sink[p][i].sql = "SQL"

\* The steps a loader takes before it iterates, in order.
Pipeline(o) ==
  IF o = "LoadValue" THEN <<"ToSql", "Query">>
  ELSE <<"ToSql", "Query", "Columns", "calculateFieldMap">>

\* The step whose failure an error value reports (0: no pipeline step).
FailedStep(e) ==
  IF e = "ErrInterpolate" THEN 1
  ELSE IF e = "ErrQuery" THEN 2
  ELSE IF e = "ErrColumns" THEN 3
  ELSE IF e = "ErrUnmappedField" THEN 4
  ELSE 0

\* C13: within a call the steps ToSql, Query, Columns, calculateFieldMap
\* happen in that order and each at most once, the row iteration starts only
\* after all of them, and once a step has failed no later step and no row
\* iteration happens; after a query text failure no cursor exists and LoadAll
\* returns 0.
C13_FailFast ==
  \A p \in Procs :
    LET t == hist[p].trace
        steps == Pipeline(fr[p].op)
        names == { steps[j] : j \in 1..Len(steps) }
        f == FailedStep(ret[p].err)
    IN  /\ \A i \in 1..Len(t) :
             /\ t[i] \in {"ToSql", "Query", "Columns", "calculateFieldMap"} =>
                  i <= Len(steps) /\ t[i] = steps[i]
             /\ t[i] \in {"Next", "holderFor", "Scan", "Err"} => i > Len(steps)
        /\ (ret[p].kind = "return" /\ f > 0) =>
             /\ \A i \in 1..Len(t) : t[i] \in names \cup {"Close"}
             /\ CountOf(p, steps[f]) = 1
             /\ \A j \in (f + 1)..Len(steps) : CountOf(p, steps[j]) = 0
             /\ f <= 2 => cur[p] = NoCursor
             /\ ret[p].n = 0

\* C13 witness: a LoadAll whose field map build failed is over: it made each
\* of the four steps once and never advanced the cursor.
C13_Witness ==
  \E p \in Procs :
    /\ Returned(p, "LoadAll") /\ ret[p].err = "ErrUnmappedField"
    /\ hist[p].trace = <<"ToSql", "Query", "Columns", "calculateFieldMap", "Close">>

\* C14: LoadValue never reads the column list and never builds a field map
\* or a holder; it advances the cursor at most once and scans at most once,
\* with one target, dest itself; it returns right after the scan, nil when
\* the scan succeeded, and then dest holds the first column of the first row.
C14_LoadValueDirect ==
  \A p \in Procs :
    fr[p].op = "LoadValue" =>
      /\ CountOf(p, "Columns") = 0
      /\ CountOf(p, "calculateFieldMap") = 0
      /\ CountOf(p, "holderFor") = 0
      /\ fr[p].columns = <<>> /\ fr[p].fieldMap = <<>>
      /\ CountOf(p, "Next") <= 1
      /\ CountOf(p, "Scan") <= 1
      /\ Len(cur[p].rows) <= 1
      /\ (CountOf(p, "Scan") = 1 /\ pc[p] # "done") =>
           /\ Len(fr[p].holder) = 1
           /\ fr[p].dest = PtrInt =>
                fr[p].holder[1] = [addr |-> dst[p].scalar, field |-> "val"]
      /\ CountOf(p, "Scan") = 1 =>
           \/ ret[p].kind = "panic"
           \/ ret[p].kind = "return" /\ ret[p].err \in {"nil", "ErrScan"}
      /\ (Returned(p, "LoadValue") /\ ret[p].err = "nil") =>
           /\ CountOf(p, "Scan") = 1
           /\ heap[dst[p].scalar].val = ColumnValue(cur[p].rows[1], cur[p].cols[1])
           /\ \A a \in DOMAIN heap \ {dst[p].scalar} : heap[a] = hist[p].pre.heap[a]

\* C14 witness: LoadValue returned nil and dest holds the id of the row, 2.
C14_Witness ==
  \E p \in Procs :
    /\ Returned(p, "LoadValue") /\ ret[p].err = "nil"
    /\ heap[dst[p].scalar].val = 2

\* C15: a LoadAll into a slice leaves the slice alone until its row loop has
\* run to its end: a call that ends on a holder or scan failure, or panics,
\* leaves the destinations as they were whatever count it returns; a call
\* whose loop ended has extended the slice by exactly the returned count.
C15_CommitAtLoopEnd ==
  \A p \in Procs :
    (fr[p].op = "LoadAll" /\ fr[p].kindOfDest = "Slice") =>
      /\ ~cur[p].exhausted => dst[p] = hist[p].pre.dst
      /\ (Returned(p, "LoadAll") /\ ret[p].err \in {"ErrHolder", "ErrScan"}) =>
           ~cur[p].exhausted /\ Untouched(p)
      /\ (pc[p] = "done" /\ ret[p].kind = "panic") => Untouched(p)
      /\ (Returned(p, "LoadAll") /\ cur[p].exhausted) =>
           /\ ret[p].err \in {"nil", "ErrRows"}
           /\ Len(dst[p].slice) = Len(hist[p].pre.dst.slice) + ret[p].n
           /\ SubSeq(dst[p].slice, 1, Len(hist[p].pre.dst.slice)) = hist[p].pre.dst.slice

\* C15 witness: the holder of the second row could not be built: LoadAll
\* returned 1 and the slice is as it was.
C15_Witness ==
  \E p \in Procs :
    /\ Returned(p, "LoadAll") /\ fr[p].kindOfDest = "Slice"
    /\ ret[p].err = "ErrHolder" /\ ret[p].n = 1
    /\ dst[p].slice = hist[p].pre.dst.slice

\* The calls a loader makes on its cursor.
CursorOps == {"Columns", "Next", "Scan", "Err"}

\* The positions before i at which the call of p used or closed its cursor.
CursorUses(p, i) ==
  { j \in 1..(i - 1) : hist[p].trace[j] \in CursorOps \cup {"Close"} }

\* The call of p made a cursor call at position i, and the cursor call just
\* before it was c.
Follows(p, i, c) ==
  /\ CursorUses(p, i) # {}
  /\ LET j == CHOOSE k \in CursorUses(p, i) : \A l \in CursorUses(p, i) : l <= k
     IN  hist[p].trace[j] = c

\* The call of p has kept to the cursor protocol: rows.Scan only right after
\* a rows.Next (that returned true), rows.Columns only before the first
\* rows.Next, rows.Err only right after a rows.Next that returned false, and
\* no cursor call after rows.Close or without a cursor.
ProtocolKept(p) ==
  LET t == hist[p].trace
  IN  \A i \in 1..Len(t) :
        /\ t[i] = "Scan" => Follows(p, i, "Next") /\ Len(cur[p].rows) >= 1
        /\ t[i] = "Columns" => \A j \in 1..(i - 1) : t[j] # "Next"
        /\ t[i] = "Err" => Follows(p, i, "Next") /\ cur[p].exhausted
        /\ t[i] \in CursorOps =>
             /\ cur[p].state # "none"
             /\ \A j \in 1..(i - 1) : t[j] # "Close"

\* C16: every loader keeps to the cursor protocol in every reachable state.
C16_CursorProtocol == \A p \in Procs : ProtocolKept(p)

\* Every call but a LoadAll into a map keeps to the cursor protocol.
ProtocolKeptButMap ==
  \A p \in Procs :
    ~(fr[p].op = "LoadAll" /\ fr[p].kindOfDest = "Map") => ProtocolKept(p)

\* The elements of a sequence.
Range(q) == { q[i] : i \in 1..Len(q) }

\* C17: a LoadAll into a slice scans every row into a record allocated for
\* that row: the record is none that existed before the call and none the
\* call has already appended, the holder addresses that record only, the
\* records the call appends are pairwise distinct, and every record that
\* existed before the call stays as it was.
C17_FreshRecords ==
  \A p \in Procs :
    (fr[p].op = "LoadAll" /\ fr[p].kindOfDest = "Slice") =>
      LET old == hist[p].pre.dst.slice
          sv  == fr[p].sliceValue
          new == dst[p].slice
      IN  /\ \A a \in DOMAIN hist[p].pre.heap :
               a \in DOMAIN heap /\ heap[a] = hist[p].pre.heap[a]
          /\ pc[p] = "la_scan" =>
               /\ fr[p].pointerToNewRecord \notin DOMAIN hist[p].pre.heap
               /\ fr[p].pointerToNewRecord \notin Range(sv)
               /\ \A i \in 1..Len(fr[p].holder) :
                    fr[p].holder[i].addr \in {0, fr[p].pointerToNewRecord}
          /\ \A i \in (Len(old) + 1)..Len(sv) :
               /\ sv[i] \notin DOMAIN hist[p].pre.heap
               /\ \A j \in 1..(i - 1) : sv[j] # sv[i]
          /\ \A i \in (Len(old) + 1)..Len(new) :
               /\ new[i] \notin DOMAIN hist[p].pre.heap
               /\ \A j \in 1..(i - 1) : new[j] # new[i]

\* C17 witness: one LoadAll appended two records, distinct and both loaded
\* from the same row values.
C17_Witness ==
  \E p \in Procs :
    /\ Returned(p, "LoadAll") /\ fr[p].kindOfDest = "Slice"
    /\ hist[p].pre.dst.slice = <<>>
    /\ Len(dst[p].slice) = 2
    /\ dst[p].slice[1] # dst[p].slice[2]
    /\ heap[dst[p].slice[1]] = heap[dst[p].slice[2]]

\* The LoadValue call of p stopped in its validation, before any collaborator
\* call, event or write.
RejectedAtEntry(p) ==
  /\ ret[p].kind = "panic"
  /\ hist[p].trace = <<>> /\ sink[p] = <<>> /\ cur[p] = NoCursor
  /\ Untouched(p)

\* C19 as stated: LoadValue turns away, before any query, a destination that
\* is no pointer and also a destination that is a pointer to a structure.
C19_Original ==
  \A p \in Procs :
    (fr[p].op = "LoadValue"
       /\ (Kind(fr[p].dest) # "Ptr" \/ Kind(Indirect(fr[p].dest)) = "Struct")) =>
      RejectedAtEntry(p)

\* C19 amended: LoadValue turns away, before any query, exactly the
\* destinations that are no pointer; every pointer destination, a pointer to
\* a structure included, passes the validation and the call goes on to ask
\* for the query text.
C19_PointerOnly ==
  \A p \in Procs :
    fr[p].op = "LoadValue" =>
      /\ Kind(fr[p].dest) # "Ptr" => RejectedAtEntry(p)
      /\ Kind(fr[p].dest) = "Ptr" =>
           /\ ~RejectedAtEntry(p)
           /\ pc[p] = "lv_sql" \/ (hist[p].trace # <<>> /\ hist[p].trace[1] = "ToSql")

\* C19 witness: a LoadValue given a pointer to a structure ran its query.
C19_Witness ==
  \E p \in Procs :
    /\ fr[p].op = "LoadValue" /\ fr[p].dest = PtrStruct
    /\ CountOf(p, "Query") = 1

\* The records caller p's destinations and running call refer to.
Own(p) ==
  {dst[p].struct, dst[p].scalar} \cup Range(dst[p].slice)
    \cup { dst[p].map[k] : k \in DOMAIN dst[p].map }
    \cup Range(fr[p].sliceValue)
    \cup (IF fr[p].pointerToNewRecord = 0 THEN {} ELSE {fr[p].pointerToNewRecord})

\* Caller p takes no part in the step.
Stays(p) == pc'[p] = pc[p] /\ fr'[p] = fr[p] /\ hist'[p] = hist[p]

\* A step of one call leaves the other caller's cursor, result, sink,
\* destinations and records as they are.
OthersUntouched ==
  \A p \in Procs :
    Stays(p) =>
      /\ cur'[p] = cur[p] /\ ret'[p] = ret[p] /\ sink'[p] = sink[p] /\ dst'[p] = dst[p]
      /\ \A a \in Own(p) : a \in DOMAIN heap' /\ heap'[a] = heap[a]

\* What every call shows of its own cursor alone, whatever the other call
\* does: its columns and field map come from its cursor, its scan targets
\* lie in its own records, it closes its cursor once, and what it returns and
\* leaves in its destinations is what its cursor's rows make of them (a map
\* destination is left as it was, as by a call that runs alone).
OwnCursorOnly(p) ==
  LET c   == cur[p]
      old == hist[p].pre.dst.slice
  IN  /\ fr[p].columns \in {<<>>, c.cols}
      /\ fr[p].fieldMap \in {<<>>, calculateFieldMap(c.cols).fieldMap}
      /\ \A i \in 1..Len(fr[p].holder) : fr[p].holder[i].addr \in {0} \cup Own(p)
      /\ Own(p) \cap Own(3 - p) = {}
      /\ \A i \in 1..Len(c.rows) : c.rows[i].id = p
      /\ (pc[p] = "done" /\ c.state # "none") => (c.state = "closed" /\ c.closes = 1)
      /\ (Returned(p, "LoadAll") /\ fr[p].kindOfDest = "Map") =>
           /\ ret[p].n = 0 /\ c.rows = <<>>
           /\ dst[p] = hist[p].pre.dst
           /\ \A a \in Own(p) : heap[a] = hist[p].pre.heap[a]
      /\ (Returned(p, "LoadAll") /\ fr[p].kindOfDest = "Slice" /\ ret[p].err = "nil") =>
           /\ ret[p].n = c.nRows /\ Len(c.rows) = c.nRows
           /\ Len(dst[p].slice) = Len(old) + c.nRows
           /\ SubSeq(dst[p].slice, 1, Len(old)) = old
           /\ \A i \in 1..c.nRows :
                heap[dst[p].slice[Len(old) + i]] = RecordOf(c.rows[i])
           /\ heap[dst[p].struct] = hist[p].pre.heap[dst[p].struct]
           /\ heap[dst[p].scalar] = hist[p].pre.heap[dst[p].scalar]
      /\ (Returned(p, "LoadAll") /\ ret[p].err # "nil") => dst[p] = hist[p].pre.dst
      /\ (Returned(p, "LoadOne") /\ ret[p].err = "nil") =>
           /\ c.nRows >= 1
           /\ heap[dst[p].struct] = RecordOf(c.rows[1])
           /\ heap[dst[p].scalar] = hist[p].pre.heap[dst[p].scalar]
           /\ dst[p] = hist[p].pre.dst
      /\ (Returned(p, "LoadValue") /\ ret[p].err = "nil") =>
           /\ c.nRows >= 1
           /\ heap[dst[p].scalar].val = RowTuple(c.rows[1], c.cols)[1]
           /\ heap[dst[p].struct] = hist[p].pre.heap[dst[p].struct]
           /\ dst[p] = hist[p].pre.dst
      /\ (pc[p] = "done" /\ ret[p].err = "ErrNotFound") =>
           /\ c.nRows = 0
           /\ dst[p] = hist[p].pre.dst
           /\ \A a \in Own(p) : heap[a] = hist[p].pre.heap[a]

\* C18: two calls that run at the same time on destinations of their own do
\* not interfere: no step of one call changes the other's cursor, result,
\* sink, destinations or records, each call uses the columns and the field
\* map of its own cursor, advances, scans and closes that cursor only, and
\* returns and leaves in its destinations what its own cursor's rows make of
\* them, in every interleaving.
C18_NoInterference ==
  /\ [](\A p \in Procs : OwnCursorOnly(p))
  /\ [][OthersUntouched]_vars

\* C18 witness: caller 1's LoadAll has returned its one row while caller 2's
\* LoadOne, begun before and working with a field map in the other column
\* order, still holds its cursor open with its row unscanned.
C18_Witness ==
  /\ Returned(1, "LoadAll") /\ ret[1].err = "nil" /\ ret[1].n = 1
  /\ heap[dst[1].slice[1]].ID = 1
  /\ fr[2].op = "LoadOne" /\ pc[2] = "lo_scan"
  /\ cur[2].state = "open" /\ Len(cur[2].rows) = 1
  /\ cur[1].cols # cur[2].cols

=============================================================================
